---- MODULE Spec2Model ----
(***************************************************************************)
(* Model of the interactive network proxy of ddash (type NetworkProxy):    *)
(* the decision store p.domains guarded by p.mu, the interactive prompt    *)
(* on p.tty, the CONNECT and plain HTTP handlers, Domains(), Start() and   *)
(* Shutdown().                                                             *)
(*                                                                         *)
(* Go strings that the code only compares (decisions, methods) are TLA+    *)
(* strings.  Go strings that the code takes apart (the reply line read     *)
(* from the tty, the request target given to stripPort) are sequences of   *)
(* one-character strings.  A Go map is a heap object: heap[ref] is its     *)
(* content, a function whose DOMAIN is the set of keys present.            *)
(***************************************************************************)
EXTENDS Naturals, Sequences, FiniteSets, TLC

\* ------------------------------------------------------------------ bounds

\* Number of connections the proxy accepts in one run (one handler each).
NumConns == 2

\* Number of connections accepted in the runs that follow the caller's maps.
CallerConns == 1

\* Number of connections whose forwarding is followed header by header.
ForwardConns == 1

\* Number of connections whose tunnels are relayed.
TunnelConns == 1

\* Number of times the caller edits a map it holds (the map it gave to
\* NewProxy, or a map returned by Domains()).
MaxEdits == 1

\* Number of Domains() calls the caller makes in one run; each returns a
\* map of its own, which the caller keeps.
MaxSnapshots == 2

Conns == 1..NumConns

\* ------------------------------------------------------------ string data

\* Request targets (r.Host): host:port, host alone, bracketed IPv6 literal.
HostA1 == <<"a", ":", "1">>
HostA  == <<"a">>
HostV6 == <<"[", ":", ":", "1", "]", ":", "1">>

Hosts == {HostA1, HostA, HostV6}

Methods == {"CONNECT", "GET"}

\* Lines the operator may type on the control channel; <<>> is a read that
\* fails or hits end of input before any byte arrives.
ReplyLines ==
  { <<"a", "\n">>, <<"d", "\n">>, <<"l", "\n">>, <<"n", "\n">>,
    <<"x", "\n">>, <<>> }

\* -------------------------------------------------------- pure functions

\* strings.ToLower on the characters the model uses.
ToLowerChar(ch) ==
  CASE ch = "A" -> "a"
    [] ch = "D" -> "d"
    [] ch = "L" -> "l"
    [] ch = "N" -> "n"
    [] ch = "O" -> "o"
    [] ch = "W" -> "w"
    [] ch = "X" -> "x"
    [] ch = "Y" -> "y"
    [] OTHER -> ch

ToLower(s) == [i \in 1..Len(s) |-> ToLowerChar(s[i])]

IsSpace(ch) == ch \in {" ", "\t", "\n", "\r"}

RECURSIVE TrimLeft(_)
TrimLeft(s) ==
  IF s /= <<>> /\ IsSpace(Head(s)) THEN TrimLeft(Tail(s)) ELSE s

RECURSIVE TrimRight(_)
TrimRight(s) ==
  IF s /= <<>> /\ IsSpace(s[Len(s)])
    THEN TrimRight(SubSeq(s, 1, Len(s) - 1))
    ELSE s

\* strings.TrimSpace
TrimSpace(s) == TrimRight(TrimLeft(s))

\* Index of the first / last occurrence of ch in s, 0 when absent.
IndexByte(s, ch) ==
  IF \E i \in 1..Len(s) : s[i] = ch
    THEN CHOOSE i \in 1..Len(s) : s[i] = ch /\ \A j \in 1..(i - 1) : s[j] /= ch
    ELSE 0

LastIndexByte(s, ch) ==
  IF \E i \in 1..Len(s) : s[i] = ch
    THEN CHOOSE i \in 1..Len(s) :
           s[i] = ch /\ \A j \in (i + 1)..Len(s) : s[j] /= ch
    ELSE 0

\* bufio.Reader.ReadString('\n') on the bytes `input` that arrive before the
\* read ends: everything up to and including the first newline, or all of
\* it when the stream ends first (the error is dropped by the caller).
ReadString(input) ==
  IF IndexByte(input, "\n") = 0 THEN input
  ELSE SubSeq(input, 1, IndexByte(input, "\n"))

\* promptDecision with a default branch that lets the connection through.
promptDecisionDefaultAllow(line) ==
  LET t == TrimSpace(ToLower(line)) IN
  CASE t \in {<<"d">>, <<"d", "e", "n", "y">>} -> "deny"
    [] t \in {<<"l">>, <<"a", "l", "w", "a", "y", "s">>} -> "always"
    [] t \in {<<"n">>, <<"n", "e", "v", "e", "r">>} -> "never"
    [] OTHER -> "allow"

\* The switch of promptUser on the trimmed, lower-cased line.
promptDecision(line) ==
  LET t == TrimSpace(ToLower(line)) IN
  CASE t \in {<<"a">>, <<"a", "l", "l", "o", "w">>} -> "allow"
    [] t \in {<<"d">>, <<"d", "e", "n", "y">>} -> "deny"
    [] t \in {<<"l">>, <<"a", "l", "w", "a", "y", "s">>} -> "always"
    [] t \in {<<"n">>, <<"n", "e", "v", "e", "r">>} -> "never"
    [] OTHER -> "deny"

\* net.SplitHostPort: [ok |-> TRUE, host |-> h] or [ok |-> FALSE].
SplitHostPort(hp) ==
  LET i   == LastIndexByte(hp, ":")
      end == IndexByte(hp, "]")
      Err == [ok |-> FALSE, host |-> <<>>]
      Bracketed ==
        IF end = 0 THEN Err
        ELSE IF end = Len(hp) THEN Err
        ELSE IF end + 1 /= i THEN Err
        ELSE LET h == SubSeq(hp, 2, end - 1) IN
             IF IndexByte(SubSeq(hp, 2, Len(hp)), "[") /= 0 THEN Err
             ELSE IF IndexByte(SubSeq(hp, end + 2, Len(hp)), "]") /= 0 THEN Err
             ELSE [ok |-> TRUE, host |-> h]
      Plain ==
        LET h == SubSeq(hp, 1, i - 1) IN
        IF IndexByte(h, ":") /= 0 THEN Err
        ELSE IF IndexByte(hp, "[") /= 0 THEN Err
        ELSE IF IndexByte(hp, "]") /= 0 THEN Err
        ELSE [ok |-> TRUE, host |-> h]
  IN IF i = 0 THEN Err
     ELSE IF hp[1] = "[" THEN Bracketed
     ELSE Plain

stripPort(host) ==
  IF SplitHostPort(host).ok THEN SplitHostPort(host).host ELSE host

\* isAllowed that only looks for the two denying tokens.
isAllowedNotDenied(decision) == decision /= "deny" /\ decision /= "never"

isAllowed(decision) == decision = "allow" \/ decision = "always"

\* ------------------------------------------------------------------ state

\* References to Go maps: the map the caller passes to NewProxy, the map
\* NewProxy makes, and the map made by the k-th Domains() call.
InRef    == <<"in", 0>>
StoreRef == <<"store", 0>>
SnapRef(k) == <<"snap", k>>

Refs == {InRef, StoreRef} \cup {SnapRef(k) : k \in 1..MaxSnapshots}

EmptyMap == [k \in {} |-> ""]

MapSet(m, k, v) == [x \in (DOMAIN m) \cup {k} |-> IF x = k THEN v ELSE m[x]]

MapDelete(m, k) == [x \in (DOMAIN m) \ {k} |-> m[x]]

\* Policy maps the configuration loader may hand to NewProxy: a token that
\* permits, one that denies, and one that is no decision token.
SeedKeys == {stripPort(HostA1)}

SeedTokens == {"allow", "never", "Allow", ""}

SeedMaps ==
  UNION {[S -> SeedTokens] : S \in SUBSET SeedKeys}

\* What the caller may write into a map it holds.
EditKeys == {stripPort(HostA1), <<"e">>}

EditVals == {"allow"}

\* Byte streams given to the reply parser on its own: every stream of at
\* most MaxLineLen characters of LineAlphabet, and the spelled-out words.
MaxLineLen == 3

LineAlphabet == {"a", "A", "d", "l", "n", "x", " ", "\n"}

RECURSIVE SeqsUpTo(_, _)
SeqsUpTo(S, n) ==
  IF n = 0 THEN {<<>>}
  ELSE LET shorter == SeqsUpTo(S, n - 1) IN
       shorter \cup {Append(q, x) : q \in shorter, x \in S}

WordLines ==
  { <<"a", "l", "l", "o", "w", "\n">>, <<"A", "l", "l", "o", "w", "\n">>,
    <<"d", "e", "n", "y", "\n">>, <<"a", "l", "w", "a", "y", "s", "\n">>,
    <<"n", "e", "v", "e", "r", "\n">>, <<"n", "e", "v", "e", "r">>,
    <<"y", "e", "s", "\n">>, <<"a", "l", "l", "o", "w", "e", "d", "\n">>,
    <<"\t", "L", "\r", "\n">>, <<"a", "\n", "l", "\n">> }

FnLines == SeqsUpTo(LineAlphabet, MaxLineLen) \cup WordLines

\* Request targets given to stripPort on its own: every string of at most
\* MaxHostLen characters of HostAlphabet, and the targets of TestStripPort.
MaxHostLen == 4

HostAlphabet == {"a", "1", ":", "[", "]"}

HostA2     == <<"a", ":", "2">>
HostV6Bare == <<"[", ":", ":", "1", "]">>
HostIPv4   == <<"1", ".", "1", ":", "1">>

FnHosts ==
  SeqsUpTo(HostAlphabet, MaxHostLen)
    \cup {HostA1, HostA2, HostA, HostV6, HostV6Bare, HostIPv4}

\* Decision tokens given to isAllowed on its own.
FnTokens ==
  { "allow", "always", "deny", "never", "", "Allow", "ALLOW", "Always",
    "ALWAYS", "allow ", " allow", "allowed", "a", "l", "yes", "true",
    "permit", "Deny", "none" }

VARIABLES
  heap,       \* heap[ref]: content of the Go map ref
  domains,    \* p.domains: the reference the proxy holds
  mu,         \* p.mu: 0 when free, else the connection holding it
  tty,        \* p.tty: "nil", "open" (an open handle), "closed" (a closed one)
  life,       \* "new" (constructed), "serving" (after Start), "shutdown"
  pc,         \* pc[c]: where the handler of connection c is
  method,     \* r.Method of the request on c
  host,       \* r.Host of the request on c
  domain,     \* the handler's local domain, stripPort(r.Host)
  decision,   \* the value checkDomain returned to the handler of c
  status,     \* the HTTP status written to the client of c (0: none yet)
  contacted,  \* whether the handler of c dialed or sent to the destination
  prompted,   \* how checkDomain of c used promptUser: "no", "notty", "asked"
  reply,      \* the line promptUser read for c
  opened,     \* number of successful opens of /dev/tty
  caller,     \* the code that owns the proxy: "idle" or "inDomains"
  held,       \* the map references the caller holds
  snaps,      \* number of Domains() calls that returned
  edits,      \* number of edits the caller made to maps it holds
  edited,     \* the references of the maps the caller edited
  seed,       \* the content of the map given to NewProxy, at that time
  cut,        \* cut[c]: server.Close() closed the client connection of c
  body,       \* body[c]: the body of the response the handler of c wrote
  fwd,        \* fwd[c]: what handleHTTP of c sent out and got back
  steps,      \* steps[c]: what handleCONNECT of c did after the gate, in order
  relay,      \* relay[c][dir]: the copy goroutine of direction dir of tunnel c
  relayEnd,   \* relayEnd[c][dir]: how io.Copy of direction dir returned
  peer,       \* peer[c][s]: what the far end of socket s of c has done
  closes,     \* closes[c][s]: number of Close calls on socket s of c
  fn,         \* a pure function applied on its own: [name, arg, res]
  sb,         \* a run of `ddash sandbox init`: its inputs and its outcome
  term        \* the terminal behind /dev/tty: bytes typed, pending and read

vars ==
  << heap, domains, mu, tty, life, pc, method, host, domain, decision, status,
     contacted, prompted, reply, opened, caller, held, snaps, edits, edited,
     seed, fn, steps, relay, relayEnd, peer, closes, cut, body, fwd, sb, term >>

envVars == << sb, term >>

wireVars == << cut, body, fwd >>

tunVars == << relay, relayEnd, peer, closes >>

\* The two copy directions of a tunnel and its two sockets: "up" is
\* io.Copy(targetConn, clientConn), "down" is io.Copy(clientConn, targetConn).
Dirs == {"up", "down"}

Socks == {"client", "target"}

Src(dir) == IF dir = "up" THEN "client" ELSE "target"

Dst(dir) == IF dir = "up" THEN "target" ELSE "client"

Other(dir) == IF dir = "up" THEN "down" ELSE "up"

connVars == << pc, method, host, domain, decision, status, contacted, prompted, reply >>

callerVars == << caller, held, snaps, edits, edited >>

\* The decision store as the proxy sees it.
Store == heap[domains]

\* NewProxy keeping the map it was given: domains: domains.
NewProxyAlias(in) ==
  [ domains |-> InRef,
    heap    |-> [r \in Refs |-> IF r = InRef THEN in ELSE EmptyMap] ]

\* NewProxy: the proxy's own map, filled with the entries of the argument.
NewProxy(in) ==
  [ domains |-> StoreRef,
    heap    |-> [r \in Refs |->
                   IF r = InRef THEN in
                   ELSE IF r = StoreRef THEN [k \in DOMAIN in |-> in[k]]
                   ELSE EmptyMap] ]

NoLine == <<"-">>

\* http.Header: header name -> values, in order.
EmptyHeader == << >>

NoOut == [method |-> "", url |-> <<>>, header |-> EmptyHeader]

NoUp == [ok |-> FALSE, code |-> 0, header |-> EmptyHeader, body |-> ""]

\* handleHTTP has not run: nothing sent out, nothing received, no header set
\* on the ResponseWriter.
NoFwd == [url |-> <<>>, header |-> EmptyHeader, sent |-> 0, out |-> NoOut,
          up |-> NoUp, hdr |-> EmptyHeader]

NoFn == [name |-> "none", arg |-> "", res |-> "?"]

\* The fields of SandboxConfig that sandboxInit fills in.
NoConfig ==
  [name |-> <<>>, isolation |-> "", allow_net |-> <<>>, allow_read |-> <<>>,
   allow_write |-> <<>>]

\* No .ddash.json in the current directory.
NoFile == [exists |-> FALSE, data |-> NoConfig]

\* `ddash sandbox init` is not being run.
NoCmd ==
  [args |-> <<>>, file |-> NoFile, stdin |-> <<>>, writable |-> TRUE,
   ret |-> "none"]

\* Nothing typed on the terminal and nothing read from it.
NoTerm == [in |-> <<>>, typed |-> <<>>, got |-> <<>>]

InitProxy(in) ==
  /\ heap = NewProxy(in).heap
  /\ domains = NewProxy(in).domains
  /\ seed = in
  /\ mu = 0
  /\ tty = "nil"
  /\ life = "new"
  /\ pc = [c \in Conns |-> "idle"]
  /\ method = [c \in Conns |-> "GET"]
  /\ host = [c \in Conns |-> <<>>]
  /\ domain = [c \in Conns |-> <<>>]
  /\ decision = [c \in Conns |-> "none"]
  /\ status = [c \in Conns |-> 0]
  /\ contacted = [c \in Conns |-> FALSE]
  /\ prompted = [c \in Conns |-> "no"]
  /\ reply = [c \in Conns |-> NoLine]
  /\ opened = 0
  /\ caller = "idle"
  /\ held = {InRef}
  /\ snaps = 0
  /\ edits = 0
  /\ edited = {}
  /\ steps = [c \in Conns |-> <<>>]
  /\ cut = [c \in Conns |-> FALSE]
  /\ body = [c \in Conns |-> ""]
  /\ fwd = [c \in Conns |-> NoFwd]
  /\ relay = [c \in Conns |-> [d \in Dirs |-> "none"]]
  /\ relayEnd = [c \in Conns |-> [d \in Dirs |-> "none"]]
  /\ peer = [c \in Conns |-> [k \in Socks |-> "open"]]
  /\ closes = [c \in Conns |-> [k \in Socks |-> 0]]

Init ==
  /\ \E in \in SeedMaps : InitProxy(in)
  /\ fn = NoFn
  /\ sb = NoCmd
  /\ term = NoTerm

\* ---------------------------------------------------------------- actions

\* The key checkDomain is called with.
Domain(c) == domain[c]

\* A mutex that never blocks.
LockedNever == FALSE

\* p.mu.Lock() blocks while another goroutine holds the mutex.
Locked == mu /= 0

\* A lookup that never finds the domain.
CachedNever(d) == FALSE

\* decision, ok := p.domains[domain]; ok
Cached(d) == d \in DOMAIN Store

\* checkDomain unlocking before it calls promptUser.
HeldDuringPromptNone(c) == 0

\* The value p.mu has while promptUser runs inside checkDomain of c.
HeldDuringPrompt(c) == c

\* checkDomain forgetting to store the decision.
RecordNothing(d, dec) == heap

\* checkDomain storing only "allow" or "deny", as its comment says.
RecordCollapsed(d, dec) ==
  [heap EXCEPT ![domains] =
     MapSet(@, d, IF dec \in {"allow", "always"} THEN "allow" ELSE "deny")]

\* p.domains[domain] = decision
Record(d, dec) == [heap EXCEPT ![domains] = MapSet(@, d, dec)]

\* A gate that lets every decision through.
GateOpen(c, dec) ==
  [pc |-> IF method[c] = "CONNECT" THEN "dial" ELSE "forward", status |-> 0,
   body |-> ""]

\* handleHTTP answering a denied request with a text of its own.
BlockedBodyPerHandler(m) ==
  IF m = "CONNECT" THEN "ddash: connection blocked" ELSE "ddash: request blocked"

\* The body both handlers give http.Error for a denied request.
BlockedBody(m) == "ddash: connection blocked"

\* The handler's gate on the value checkDomain returned: 403 and return,
\* or go on to the destination.
Gate(c, dec) ==
  IF isAllowed(dec)
    THEN [pc |-> IF method[c] = "CONNECT" THEN "dial" ELSE "forward",
          status |-> 0, body |-> ""]
    ELSE [pc |-> "done", status |-> 403, body |-> BlockedBody(method[c])]

Return(c, dec) ==
  /\ decision' = [decision EXCEPT ![c] = dec]
  /\ pc' = [pc EXCEPT ![c] = Gate(c, dec).pc]
  /\ status' = [status EXCEPT ![c] = Gate(c, dec).status]
  /\ body' = [body EXCEPT ![c] = Gate(c, dec).body]

\* Start: go p.server.Serve(p.listener)
Start ==
  /\ life = "new"
  /\ life' = "serving"
  /\ UNCHANGED << heap, domains, mu, tty, connVars, opened, callerVars, seed, envVars, fn, steps, tunVars, wireVars >>

\* ServeHTTP: a request arrives on connection c and is dispatched to
\* handleCONNECT or handleHTTP, which is about to call checkDomain.
ServeHTTP(c, requests) ==
  /\ life = "serving"
  /\ pc[c] = "idle"
  /\ \E r \in requests :
       /\ method' = [method EXCEPT ![c] = r[1]]
       /\ host' = [host EXCEPT ![c] = r[2]]
       /\ domain' = [domain EXCEPT ![c] = stripPort(r[2])]
  /\ pc' = [pc EXCEPT ![c] = "check"]
  /\ UNCHANGED << heap, domains, mu, tty, life, decision, status, contacted,
                  prompted, reply, opened, callerVars, seed, envVars, fn, steps, tunVars, wireVars >>

\* checkDomain, domain found: lock, look up, unlock, return.
checkDomainCached(c) ==
  /\ pc[c] = "check"
  /\ ~Locked
  /\ Cached(Domain(c))
  /\ Return(c, Store[Domain(c)])
  /\ UNCHANGED << heap, domains, mu, tty, life, method, host, domain, contacted,
                  prompted, reply, opened, callerVars, seed, envVars, fn, steps, tunVars,
                  cut, fwd >>

\* checkDomain returning with the lock still held by its handler.
UnlockAtHandlerEnd(c) == c

\* p.mu after checkDomain of c returns: defer p.mu.Unlock().
Unlock(c) == 0

\* checkDomain marking the domain in the store before it prompts.
StoreWhilePromptingMarked(d) == [heap EXCEPT ![domains] = MapSet(@, d, "pending")]

\* The store while promptUser runs: checkDomain assigns p.domains[domain]
\* only after promptUser has returned.
StoreWhilePrompting(d) == heap

\* promptUser failing open when /dev/tty cannot be opened.
NoTtyAllow == "allow"

\* What promptUser returns when /dev/tty cannot be opened.
NoTtyDecision == "deny"

\* promptUser keeping the handle it opened in a local only.
TtyAfterOpenUnset == "nil"

\* p.tty after a successful open: p.tty = tty.
TtyAfterOpen == "open"

\* p.tty after a failed open.
TtyAfterFailedOpen == "nil"

\* checkDomain, domain not found: lock and enter promptUser, which opens
\* /dev/tty when p.tty is nil.  When the open fails promptUser returns at
\* once; otherwise it writes the question and blocks in the read.
promptUser(c) ==
  /\ pc[c] = "check"
  /\ ~Locked
  /\ ~Cached(Domain(c))
  /\ \E ok \in BOOLEAN :
       IF tty = "nil" /\ ~ok
         THEN /\ tty' = TtyAfterFailedOpen
              /\ opened' = opened
              /\ prompted' = [prompted EXCEPT ![c] = "notty"]
              /\ heap' = Record(Domain(c), NoTtyDecision)
              /\ mu' = mu
              /\ Return(c, NoTtyDecision)
         ELSE /\ tty' = IF tty = "nil" THEN TtyAfterOpen ELSE tty
              /\ opened' = IF tty = "nil" THEN opened + 1 ELSE opened
              /\ prompted' = [prompted EXCEPT ![c] = "asked"]
              /\ heap' = StoreWhilePrompting(Domain(c))
              /\ mu' = HeldDuringPrompt(c)
              /\ pc' = [pc EXCEPT ![c] = IF tty = "closed" THEN "readClosed" ELSE "read"]
              /\ UNCHANGED << decision, status, body >>
  /\ UNCHANGED << domains, life, method, host, domain, contacted, reply, callerVars,
                  seed, envVars, fn, steps, tunVars, cut, fwd >>

\* The bytes a read on p.tty may deliver.  A read begun on a closed handle
\* fails at once.  A read that was blocked when Shutdown closed the handle
\* fails too when the descriptor is in the poller, and goes on waiting for
\* input when it is in blocking mode.
Readable(c) ==
  IF pc[c] = "readClosed" THEN {<<>>} ELSE ReplyLines

\* promptUser, the read returns: parse the line; then checkDomain records
\* the decision, unlocks and returns it.
promptUserReply(c) ==
  /\ pc[c] \in {"read", "readClosed"}
  /\ \E input \in Readable(c) :
       LET line == ReadString(input)
           dec  == promptDecision(line)
       IN /\ reply' = [reply EXCEPT ![c] = line]
          /\ heap' = Record(Domain(c), dec)
          /\ Return(c, dec)
  /\ mu' = Unlock(c)
  /\ UNCHANGED << domains, tty, life, method, host, domain, contacted, prompted,
                  opened, callerVars, seed, envVars, fn, steps, tunVars, cut, fwd >>

\* handleCONNECT going on to the tunnel after it answered 502.
DialStepsNoReturn(ok) ==
  IF ok THEN <<"dial">>
  ELSE <<"dialErr", "write502", "hijack", "write200", "relay">>

\* What handleCONNECT does at net.Dial, by whether the dial succeeds.
DialSteps(ok) == IF ok THEN <<"dial">> ELSE <<"dialErr", "write502">>

\* handleCONNECT: net.Dial("tcp", r.Host)
handleCONNECTDial(c) ==
  /\ pc[c] = "dial"
  /\ contacted' = [contacted EXCEPT ![c] = TRUE]
  /\ \E ok \in BOOLEAN :
       /\ steps' = [steps EXCEPT ![c] = @ \o DialSteps(ok)]
       /\ IF ok THEN /\ pc' = [pc EXCEPT ![c] = "hijack"]
                     /\ status' = status
                     /\ body' = body
                ELSE /\ pc' = [pc EXCEPT ![c] = "done"]
                     /\ status' = [status EXCEPT ![c] = 502]
                     /\ body' = [body EXCEPT ![c] = "ddash: failed to connect"]
  /\ UNCHANGED << heap, domains, mu, tty, life, method, host, domain, decision,
                  prompted, reply, opened, callerVars, seed, envVars, fn, tunVars, cut, fwd >>

\* What handleCONNECT does after a successful dial, by what taking over the
\* client connection gives: the ResponseWriter is no Hijacker, Hijack
\* fails, or Hijack succeeds.
HijackOutcomes == {"unsupported", "error", "ok"}

HijackSteps(o) ==
  CASE o = "unsupported" -> <<"closeTarget", "write500">>
    [] o = "error"       -> <<"hijackErr", "closeTarget", "write500">>
    [] OTHER             -> <<"hijack", "write200", "relay">>

\* handleCONNECT closing the target only where the writer is no Hijacker.
TargetClosesUnsupportedOnly(o) == IF o = "unsupported" THEN 1 ELSE 0

\* The targetConn.Close() calls handleCONNECT makes when it cannot take over
\* the client connection: one on either path.
TargetCloses(o) == IF o \in {"unsupported", "error"} THEN 1 ELSE 0

\* handleCONNECT: take over the client connection, write the 200 line and
\* start the two copy goroutines; or close the target and answer 500.
handleCONNECTHijack(c) ==
  /\ pc[c] = "hijack"
  /\ \E o \in HijackOutcomes :
       /\ steps' = [steps EXCEPT ![c] = @ \o HijackSteps(o)]
       /\ IF o = "ok"
            THEN /\ pc' = [pc EXCEPT ![c] = "tunnel"]
                 /\ status' = [status EXCEPT ![c] = 200]
                 /\ body' = body
                 /\ relay' = [relay EXCEPT ![c] = [d \in Dirs |-> "copy"]]
                 /\ closes' = closes
            ELSE /\ pc' = [pc EXCEPT ![c] = "done"]
                 /\ status' = [status EXCEPT ![c] = 500]
                 /\ body' = [body EXCEPT ![c] =
                               IF o = "unsupported"
                                 THEN "ddash: hijacking not supported"
                                 ELSE "ddash: hijack failed"]
                 /\ relay' = relay
                 /\ closes' = [closes EXCEPT ![c]["target"] = @ + TargetCloses(o)]
  /\ UNCHANGED << heap, domains, mu, tty, life, method, host, domain, decision,
                  contacted, prompted, reply, opened, callerVars, seed, envVars, fn,
                  relayEnd, peer, cut, fwd >>

\* What a Read on socket k of tunnel c returns: an error once the proxy has
\* closed the socket, else what the far end has sent; "open" is a read that
\* blocks.
ReadResult(c, k) ==
  IF closes[c][k] > 0 \/ (k = "client" /\ cut[c]) THEN "err" ELSE peer[c][k]

\* Whether a Write on socket k of tunnel c fails.
WriteFails(c, k) ==
  closes[c][k] > 0 \/ (k = "client" /\ cut[c]) \/ peer[c][k] = "err"

\* The far end of a socket of the tunnel sends its end-of-input or resets.
PeerEvent(c) ==
  /\ pc[c] = "tunnel"
  /\ \E k \in Socks, ev \in {"eof", "err"} :
       /\ peer[c][k] = "open"
       /\ closes[c][k] = 0
       /\ peer' = [peer EXCEPT ![c][k] = ev]
  /\ UNCHANGED << heap, domains, mu, tty, life, connVars, opened, callerVars,
                  seed, envVars, fn, steps, relay, relayEnd, closes, wireVars >>

\* io.Copy of one direction returns: its source gave end-of-input or an
\* error, or a write of bytes the source sent failed.
relayCopyReturns(c, dir) ==
  /\ relay[c][dir] = "copy"
  /\ \/ /\ ReadResult(c, Src(dir)) /= "open"
        /\ relayEnd' = [relayEnd EXCEPT ![c][dir] = ReadResult(c, Src(dir))]
     \/ /\ ReadResult(c, Src(dir)) = "open"
        /\ WriteFails(c, Dst(dir))
        /\ relayEnd' = [relayEnd EXCEPT ![c][dir] = "err"]
  /\ relay' = [relay EXCEPT ![c][dir] = "returned"]
  /\ UNCHANGED << heap, domains, mu, tty, life, connVars, opened, callerVars,
                  seed, envVars, fn, steps, peer, closes, wireVars >>

\* Each copy goroutine closing both sockets when its copy returns.
ClosesBoth(dir) == Socks

\* Copy goroutines that end without closing a socket.
ClosesNothing(dir) == {}

\* The sockets a copy goroutine closes after its io.Copy: the one it wrote to.
Closes(dir) == {Dst(dir)}

\* The copy goroutine of one direction calls Close and ends.
relayClose(c, dir) ==
  /\ relay[c][dir] = "returned"
  /\ closes' = [closes EXCEPT ![c] =
                  [k \in Socks |-> IF k \in Closes(dir) THEN @[k] + 1 ELSE @[k]]]
  /\ relay' = [relay EXCEPT ![c][dir] = "done"]
  /\ UNCHANGED << heap, domains, mu, tty, life, connVars, opened, callerVars,
                  seed, envVars, fn, steps, relayEnd, peer, wireVars >>

\* The server taking the target of a proxy request from somewhere else than
\* r.Host is taken from.
RequestURLElsewhere(abs, h) ==
  IF abs THEN <<"http://">> \o HostV6 \o <<"/">> ELSE <<"/">>

\* r.URL of a request for host h: the absolute form a proxy client sends,
\* or the origin form of a request sent as if to the destination itself.
RequestURL(abs, h) == IF abs THEN <<"http://">> \o h \o <<"/">> ELSE <<"/">>

\* url.Host of a URL in absolute form: what stands between the scheme and
\* the path.
Authority(url) == SubSeq(url, 2, Len(url) - 1)

\* The address handleCONNECT gives net.Dial.
DialAddress(c) == host[c]

\* Whether the transport can send to url: it needs a scheme and a host.
Sendable(url) == Len(url) > 2 /\ url[1] = "http://"

\* h.Add(k, v)
HeaderAdd(h, k, v) ==
  [x \in DOMAIN h \cup {k} |->
     IF x = k THEN (IF k \in DOMAIN h THEN Append(h[k], v) ELSE <<v>>) ELSE h[x]]

RECURSIVE AddValues(_, _, _)
\* for _, v := range vv { w.Header().Add(k, v) }
AddValues(h, k, vv) ==
  IF vv = <<>> THEN h ELSE AddValues(HeaderAdd(h, k, Head(vv)), k, Tail(vv))

RECURSIVE CopyHeader(_, _, _)
\* for k, vv := range resp.Header { ... }, over the keys not yet visited
CopyHeader(h, src, keys) ==
  IF keys = {} THEN h
  ELSE LET k == CHOOSE x \in keys : TRUE
       IN CopyHeader(AddValues(h, k, src[k]), src, keys \ {k})

\* r.Header.Clone()
Clone(h) == [k \in DOMAIN h |-> h[k]]

\* handleHTTP sending an invalid upstream status code on as it is.
WriteHeaderPanicsNever(code) == FALSE

\* w.WriteHeader(code) panics on a code that has not three digits; the
\* server recovers the panic and closes the connection without a response.
WriteHeaderPanics(code) == code < 100 \/ code > 999

\* handleHTTP: build the outbound request, send it, copy the response.
\* reqs is what the client's request may hold besides method and host,
\* ups is what the transport may return.
handleHTTPForwardOf(c, reqs, ups) ==
  /\ pc[c] = "forward"
  /\ \E rq \in reqs, built \in BOOLEAN, up \in ups :
       LET url == RequestURL(rq.abs, host[c])
           out == [method |-> method[c], url |-> url, header |-> Clone(rq.header)]
           got == [url |-> url, header |-> rq.header, sent |-> 0, out |-> NoOut,
                   up |-> NoUp, hdr |-> EmptyHeader]
           hdr == CopyHeader(EmptyHeader, up.header, DOMAIN up.header)
       IN CASE ~built ->
                 /\ fwd' = [fwd EXCEPT ![c] = got]
                 /\ contacted' = [contacted EXCEPT ![c] = FALSE]
                 /\ status' = [status EXCEPT ![c] = 400]
                 /\ body' = [body EXCEPT ![c] = "ddash: bad request"]
            [] built /\ ~(Sendable(url) /\ up.ok) ->
                 /\ fwd' = [fwd EXCEPT ![c] = [got EXCEPT !.sent = 1, !.out = out]]
                 /\ contacted' = [contacted EXCEPT ![c] = TRUE]
                 /\ status' = [status EXCEPT ![c] = 502]
                 /\ body' = [body EXCEPT ![c] = "ddash: upstream error"]
            [] OTHER ->
                 /\ fwd' = [fwd EXCEPT ![c] =
                              [got EXCEPT !.sent = 1, !.out = out, !.up = up,
                                          !.hdr = hdr]]
                 /\ contacted' = [contacted EXCEPT ![c] = TRUE]
                 /\ IF WriteHeaderPanics(up.code)
                      THEN /\ status' = status
                           /\ body' = body
                      ELSE /\ status' = [status EXCEPT ![c] = up.code]
                           /\ body' = [body EXCEPT ![c] = up.body]
  /\ pc' = [pc EXCEPT ![c] = "done"]
  /\ UNCHANGED << heap, domains, mu, tty, life, method, host, domain, decision,
                  prompted, reply, opened, callerVars, seed, envVars, fn, steps, tunVars,
                  cut >>

\* A proxy request with no header, and an upstream that fails or answers 200.
PlainRequests == {[abs |-> TRUE, header |-> EmptyHeader]}

PlainUpstreams == {NoUp, [ok |-> TRUE, code |-> 200, header |-> EmptyHeader, body |-> "b"]}

handleHTTPForward(c) == handleHTTPForwardOf(c, PlainRequests, PlainUpstreams)

\* Connections whose request is being handled and which are not hijacked:
\* the ones the server still tracks as active.
InFlight(c) == pc[c] \in {"check", "read", "readClosed", "dial", "hijack", "forward"}

\* Shutdown leaving the connections of requests in flight alone.
ServerCloseNone == cut

\* p.server.Close(): closes the client connection of every request still
\* being handled; hijacked connections are no longer the server's.
ServerClose == [c \in Conns |-> cut[c] \/ InFlight(c)]

\* Shutdown: close p.tty when it is set (read without the lock), close the
\* server and the listener.
Shutdown ==
  /\ life \in {"new", "serving"}
  /\ life' = "shutdown"
  /\ tty' = IF tty = "nil" THEN "nil" ELSE "closed"
  /\ cut' = ServerClose
  /\ UNCHANGED << heap, domains, mu, connVars, opened, callerVars, seed, envVars, fn,
                  steps, tunVars, body, fwd >>

\* Domains() returning p.domains itself.
DomainsAlias(k) == [ref |-> domains, heap |-> heap]

\* The map Domains() returns on its k-th call and the heap after it.
Domains(k) ==
  [ ref  |-> SnapRef(k),
    heap |-> [heap EXCEPT ![SnapRef(k)] = [d \in DOMAIN Store |-> Store[d]]] ]

\* The caller calls Domains(), which blocks in p.mu.Lock().
DomainsCall ==
  /\ caller = "idle"
  /\ snaps < MaxSnapshots
  /\ caller' = "inDomains"
  /\ UNCHANGED << heap, domains, mu, tty, life, connVars, opened, held, snaps,
                  edits, edited, seed, envVars, fn, steps, tunVars, wireVars >>

\* Domains() gets the lock, copies, unlocks and returns.
DomainsReturn ==
  /\ caller = "inDomains"
  /\ ~Locked
  /\ heap' = Domains(snaps + 1).heap
  /\ held' = held \cup {Domains(snaps + 1).ref}
  /\ snaps' = snaps + 1
  /\ caller' = "idle"
  /\ UNCHANGED << domains, mu, tty, life, connVars, opened, edits, edited,
                  seed, envVars, fn, steps, tunVars, wireVars >>

\* The caller writes to, or deletes from, a map it holds.
CallerEdit ==
  /\ edits < MaxEdits
  /\ \E r \in held, k \in EditKeys :
       /\ \/ \E v \in EditVals : heap' = [heap EXCEPT ![r] = MapSet(@, k, v)]
          \/ heap' = [heap EXCEPT ![r] = MapDelete(@, k)]
       /\ edited' = edited \cup {r}
  /\ edits' = edits + 1
  /\ UNCHANGED << domains, mu, tty, life, connVars, opened, caller, held,
                  snaps, seed, envVars, fn, steps, tunVars, wireVars >>

Requests ==
  {<<"GET", HostA1>>, <<"CONNECT", HostA>>, <<"GET", HostV6>>, <<"CONNECT", HostV6>>}

\* The proxy serving NumConns connections; the caller only starts it and
\* shuts it down.
Next ==
  \/ Start
  \/ Shutdown
  \/ \E c \in Conns : ServeHTTP(c, Requests)
  \/ \E c \in Conns : checkDomainCached(c)
  \/ \E c \in Conns : promptUser(c)
  \/ \E c \in Conns : promptUserReply(c)
  \/ \E c \in Conns : handleCONNECTDial(c)
  \/ \E c \in Conns : handleCONNECTHijack(c)
  \/ \E c \in Conns : handleHTTPForward(c)

Spec == Init /\ [][Next]_vars

\* NewProxy building the proxy before it listens, and returning it with the
\* error.
NewProxyListenErrorLate(in) == NewProxy(in)

\* The reference a nil *NetworkProxy stands for.
NilRef == <<"nil", 0>>

\* NewProxy when net.Listen fails: it returns nil and the error before it
\* makes the proxy or its map.
NewProxyListenError(in) ==
  [ domains |-> NilRef,
    heap    |-> [r \in Refs |-> IF r = InRef THEN in ELSE EmptyMap] ]

\* The state after a NewProxy call whose net.Listen failed.
InitListenError(in) ==
  /\ heap = NewProxyListenError(in).heap
  /\ domains = NewProxyListenError(in).domains
  /\ seed = in
  /\ mu = 0
  /\ tty = "nil"
  /\ life = "failed"
  /\ pc = [c \in Conns |-> "idle"]
  /\ method = [c \in Conns |-> "GET"]
  /\ host = [c \in Conns |-> <<>>]
  /\ domain = [c \in Conns |-> <<>>]
  /\ decision = [c \in Conns |-> "none"]
  /\ status = [c \in Conns |-> 0]
  /\ contacted = [c \in Conns |-> FALSE]
  /\ prompted = [c \in Conns |-> "no"]
  /\ reply = [c \in Conns |-> NoLine]
  /\ opened = 0
  /\ caller = "idle"
  /\ held = {InRef}
  /\ snaps = 0
  /\ edits = 0
  /\ edited = {}
  /\ steps = [c \in Conns |-> <<>>]
  /\ cut = [c \in Conns |-> FALSE]
  /\ body = [c \in Conns |-> ""]
  /\ fwd = [c \in Conns |-> NoFwd]
  /\ relay = [c \in Conns |-> [d \in Dirs |-> "none"]]
  /\ relayEnd = [c \in Conns |-> [d \in Dirs |-> "none"]]
  /\ peer = [c \in Conns |-> [k \in Socks |-> "open"]]
  /\ closes = [c \in Conns |-> [k \in Socks |-> 0]]

\* The proxy serving CallerConns plain HTTP requests while the caller takes
\* snapshots with Domains() and edits the maps it holds.
CallerRequests == {<<"GET", HostA1>>}

CallerSeedMaps ==
  { EmptyMap,
    [k \in SeedKeys |-> "allow"] }

InitCaller ==
  /\ \E in \in CallerSeedMaps : InitProxy(in)
  /\ fn = NoFn
  /\ sb = NoCmd
  /\ term = NoTerm

NextCaller ==
  \/ Start
  \/ Shutdown
  \/ \E c \in 1..CallerConns : ServeHTTP(c, CallerRequests)
  \/ \E c \in 1..CallerConns : checkDomainCached(c)
  \/ \E c \in 1..CallerConns : promptUser(c)
  \/ \E c \in 1..CallerConns : promptUserReply(c)
  \/ \E c \in 1..CallerConns : handleHTTPForward(c)
  \/ DomainsCall
  \/ DomainsReturn
  \/ CallerEdit

SpecCaller == InitCaller /\ [][NextCaller]_vars

\* NewProxy called with a policy map: net.Listen on 127.0.0.1:0 succeeds or
\* fails.
InitListen ==
  /\ \E in \in CallerSeedMaps :
       \/ InitProxy(in)
       \/ InitListenError(in)
  /\ fn = NoFn
  /\ sb = NoCmd
  /\ term = NoTerm

\* The proxy, when NewProxy returned one, serving NumConns connections.
SpecListen == InitListen /\ [][Next]_vars

\* The proxy serving TunnelConns CONNECT requests and relaying their tunnels.
TunnelRequests == {"CONNECT"} \X {HostA1, HostV6}

InitTunnel ==
  /\ \E in \in CallerSeedMaps : InitProxy(in)
  /\ fn = NoFn
  /\ sb = NoCmd
  /\ term = NoTerm

NextTunnel ==
  \/ Start
  \/ Shutdown
  \/ \E c \in 1..TunnelConns : ServeHTTP(c, TunnelRequests)
  \/ \E c \in 1..TunnelConns : checkDomainCached(c)
  \/ \E c \in 1..TunnelConns : promptUser(c)
  \/ \E c \in 1..TunnelConns : promptUserReply(c)
  \/ \E c \in 1..TunnelConns : handleCONNECTDial(c)
  \/ \E c \in 1..TunnelConns : handleCONNECTHijack(c)
  \/ \E c \in 1..TunnelConns : PeerEvent(c)
  \/ \E c \in 1..TunnelConns, dir \in Dirs : relayCopyReturns(c, dir)
  \/ \E c \in 1..TunnelConns, dir \in Dirs : relayClose(c, dir)

SpecTunnel == InitTunnel /\ [][NextTunnel]_vars

\* Tunnels to a domain the policy allows, for the life of the relay alone.
RelayRequests == {<<"CONNECT", HostA1>>}

InitRelay ==
  /\ InitProxy([d \in {HostA} |-> "allow"])
  /\ fn = NoFn
  /\ sb = NoCmd
  /\ term = NoTerm

NextRelay ==
  \/ Start
  \/ Shutdown
  \/ \E c \in 1..TunnelConns : ServeHTTP(c, RelayRequests)
  \/ \E c \in 1..TunnelConns : checkDomainCached(c)
  \/ \E c \in 1..TunnelConns : handleCONNECTDial(c)
  \/ \E c \in 1..TunnelConns : handleCONNECTHijack(c)
  \/ \E c \in 1..TunnelConns : PeerEvent(c)
  \/ \E c \in 1..TunnelConns, dir \in Dirs : relayCopyReturns(c, dir)
  \/ \E c \in 1..TunnelConns, dir \in Dirs : relayClose(c, dir)

\* The runtime schedules every goroutine that can run: a copy whose read or
\* write has failed or ended returns, and a goroutine whose copy returned
\* calls Close.
RelayFairness ==
  \A c \in 1..TunnelConns, dir \in Dirs :
    /\ WF_vars(relayCopyReturns(c, dir))
    /\ WF_vars(relayClose(c, dir))

SpecRelay == InitRelay /\ [][NextRelay]_vars /\ RelayFairness

\* The proxy forwarding ForwardConns requests, with what a client's request
\* may carry and what an upstream may answer: a request in absolute or in
\* origin form, with or without a header; a round trip that fails, or a
\* response with a status code (99 is a status line "HTTP/1.1 099", which
\* the transport accepts), a header with one or two values, and a body.
ForwardRequests ==
  { [abs |-> TRUE,  header |-> EmptyHeader],
    [abs |-> TRUE,  header |-> [k \in {"Accept"} |-> <<"x">>]],
    [abs |-> FALSE, header |-> EmptyHeader] }

UpstreamCodes == {200, 404, 99}

UpstreamHeaders ==
  { EmptyHeader,
    [k \in {"Set-Cookie"} |-> <<"x", "y">>],
    [k \in {"Set-Cookie", "Via"} |-> <<"x">>] }

Upstreams ==
  {NoUp} \cup
  [ok : {TRUE}, code : UpstreamCodes, header : UpstreamHeaders, body : {"", "b"}]

InitForward ==
  /\ \E in \in CallerSeedMaps : InitProxy(in)
  /\ fn = NoFn
  /\ sb = NoCmd
  /\ term = NoTerm

NextForward ==
  \/ Start
  \/ Shutdown
  \/ \E c \in 1..ForwardConns : ServeHTTP(c, Methods \X {HostA1})
  \/ \E c \in 1..ForwardConns : checkDomainCached(c)
  \/ \E c \in 1..ForwardConns : promptUser(c)
  \/ \E c \in 1..ForwardConns : promptUserReply(c)
  \/ \E c \in 1..ForwardConns : handleCONNECTDial(c)
  \/ \E c \in 1..ForwardConns : handleCONNECTHijack(c)
  \/ \E c \in 1..ForwardConns : handleHTTPForwardOf(c, ForwardRequests, Upstreams)

SpecForward == InitForward /\ [][NextForward]_vars

\* The proxy with its scheduling: a handler goroutine that can take its next
\* step takes it (the Go scheduler runs every runnable goroutine, and a dial
\* or a round trip ends by itself). Nothing makes a client send a request or
\* the operator type a reply, and nothing makes the caller shut down.
HandlerFairness ==
  \A c \in Conns :
    /\ WF_vars(checkDomainCached(c))
    /\ WF_vars(promptUser(c))
    /\ WF_vars(handleCONNECTDial(c))
    /\ WF_vars(handleCONNECTHijack(c))
    /\ WF_vars(handleHTTPForward(c))

SpecLive == Init /\ [][Next]_vars /\ HandlerFairness

\* The proxy serving requests that name the same hosts with different ports
\* and with no port.
PortHosts == {HostA1, HostA2, HostA, HostV6, HostV6Bare}

PortRequests == Methods \X PortHosts

InitPorts ==
  /\ \E in \in CallerSeedMaps : InitProxy(in)
  /\ fn = NoFn
  /\ sb = NoCmd
  /\ term = NoTerm

NextPorts ==
  \/ Start
  \/ Shutdown
  \/ \E c \in Conns : ServeHTTP(c, PortRequests)
  \/ \E c \in Conns : checkDomainCached(c)
  \/ \E c \in Conns : promptUser(c)
  \/ \E c \in Conns : promptUserReply(c)
  \/ \E c \in Conns : handleCONNECTDial(c)
  \/ \E c \in Conns : handleCONNECTHijack(c)
  \/ \E c \in Conns : handleHTTPForward(c)

SpecPorts == InitPorts /\ [][NextPorts]_vars

\* One host spelled three ways: as seeded, in capitals, with a final dot.
HostUpper == <<"A", ":", "1">>
HostDot   == <<"a", ".", ":", "1">>

SpellingHosts == {HostA1, HostUpper, HostDot}

SpellingRequests == Methods \X SpellingHosts

\* A policy that names the host in small letters.
SpellingSeedMaps ==
  { EmptyMap,
    [k \in SeedKeys |-> "never"] }

InitSpelling ==
  /\ \E in \in SpellingSeedMaps : InitProxy(in)
  /\ fn = NoFn
  /\ sb = NoCmd
  /\ term = NoTerm

NextSpelling ==
  \/ Start
  \/ Shutdown
  \/ \E c \in Conns : ServeHTTP(c, SpellingRequests)
  \/ \E c \in Conns : checkDomainCached(c)
  \/ \E c \in Conns : promptUser(c)
  \/ \E c \in Conns : promptUserReply(c)
  \/ \E c \in Conns : handleCONNECTDial(c)
  \/ \E c \in Conns : handleCONNECTHijack(c)
  \/ \E c \in Conns : handleHTTPForward(c)

\* The proxy serving requests that spell one host in several ways.
SpecSpelling == InitSpelling /\ [][NextSpelling]_vars

\* ------------------------------------------------- typing ahead of prompts

\* Number of lines the operator types.
MaxTyped == 2

\* Lines the operator types at the terminal.
TypedLines == { <<"a", "\n">>, <<"n", "\n">> }

\* The operator types a line; it waits in the terminal until it is read.
OperatorTypes ==
  /\ Len(term.typed) < MaxTyped
  /\ \E l \in TypedLines :
       term' = [term EXCEPT !.in = @ \o l, !.typed = Append(@, l)]
  /\ UNCHANGED << heap, domains, mu, tty, life, connVars, opened, callerVars,
                  seed, fn, sb, steps, tunVars, wireVars >>

\* One read(2) on /dev/tty with bytes pending, as the reader's fill does it
\* with its 4096-byte buffer: a terminal in canonical mode hands over one
\* line, a terminal in non-canonical mode every byte that is pending.
TtyRead(pending, canonical) ==
  IF canonical THEN ReadString(pending) ELSE pending

\* promptUser, the read returns with typed input: the bufio.Reader made for
\* this prompt fills its buffer with one read, ReadString returns the first
\* line of it, and the reader is dropped with whatever else it holds; then
\* checkDomain records the decision, unlocks and returns it.
promptUserRead(c) ==
  /\ pc[c] = "read"
  /\ term.in /= <<>>
  /\ \E canonical \in BOOLEAN :
       LET buf  == TtyRead(term.in, canonical)
           line == ReadString(buf)
           dec  == promptDecision(line)
       IN /\ term' = [term EXCEPT !.in = SubSeq(@, Len(buf) + 1, Len(@)),
                                  !.got = Append(@, line)]
          /\ reply' = [reply EXCEPT ![c] = line]
          /\ heap' = Record(Domain(c), dec)
          /\ Return(c, dec)
  /\ mu' = Unlock(c)
  /\ UNCHANGED << domains, tty, life, method, host, domain, contacted, prompted,
                  opened, callerVars, seed, fn, sb, steps, tunVars, cut, fwd >>

TermRequests == {<<"GET", HostA1>>, <<"GET", HostV6>>}

InitTerm ==
  /\ InitProxy(EmptyMap)
  /\ fn = NoFn
  /\ sb = NoCmd
  /\ term = NoTerm

NextTerm ==
  \/ Start
  \/ OperatorTypes
  \/ \E c \in Conns : ServeHTTP(c, TermRequests)
  \/ \E c \in Conns : checkDomainCached(c)
  \/ \E c \in Conns : promptUser(c)
  \/ \E c \in Conns : promptUserRead(c)
  \/ \E c \in Conns : handleHTTPForward(c)

\* The proxy prompting for NumConns requests while the operator types
\* replies, ahead of the prompts or not.
SpecTerm == InitTerm /\ [][NextTerm]_vars

\* -------------------------------------------------- ddash sandbox init

\* filepath.Base(mustGetwd()): the name of the current directory.
DefaultName == <<"p">>

\* readLine: the reader's next line, trimmed, and what is left to read; at
\* end of input the bytes that were left, trimmed.
readLine(in) ==
  [ line |-> TrimSpace(ReadString(in)),
    rest |-> SubSeq(in, Len(ReadString(in)) + 1, Len(in)) ]

\* yesNo on the line readLine returned.
yesNo(line) == ToLower(line) \in {<<"y">>, <<"y", "e", "s">>}

\* strings.Split(s, sep)
RECURSIVE Split(_, _)
Split(s, sep) ==
  IF IndexByte(s, sep) = 0 THEN <<s>>
  ELSE <<SubSeq(s, 1, IndexByte(s, sep) - 1)>>
         \o Split(SubSeq(s, IndexByte(s, sep) + 1, Len(s)), sep)

\* The loops of interactiveInit over strings.Split(str, ","): every piece
\* that is not empty once trimmed is appended to list.
RECURSIVE AppendPieces(_, _)
AppendPieces(list, pieces) ==
  IF pieces = <<>> THEN list
  ELSE AppendPieces(
         IF TrimSpace(Head(pieces)) /= <<>>
           THEN Append(list, TrimSpace(Head(pieces)))
           ELSE list,
         Tail(pieces))

\* interactiveInit, the network question: the list and what is left to read.
AskNet(in) ==
  LET q == readLine(in) IN
  IF yesNo(q.line)
    THEN LET a == readLine(q.rest) IN
         IF ToLower(a.line) = <<"s", "p", "e", "c", "i", "f", "i", "c">>
           THEN LET h == readLine(a.rest) IN
                [list |-> AppendPieces(<<>>, Split(h.line, ",")), rest |-> h.rest]
           ELSE [list |-> << <<"*">> >>, rest |-> a.rest]
    ELSE [list |-> <<>>, rest |-> q.rest]

\* interactiveInit, the write and the read question: [.] and the paths given.
AskPaths(in) ==
  LET q == readLine(in) IN
  IF yesNo(q.line)
    THEN LET a == readLine(q.rest) IN
         [list |-> AppendPieces(<< <<".">> >>, Split(a.line, ",")), rest |-> a.rest]
    ELSE [list |-> << <<".">> >>, rest |-> q.rest]

\* interactiveInit reading its answers from stdin.
interactiveInit(stdin) ==
  LET n     == readLine(stdin)
      net   == AskNet(n.rest)
      write == AskPaths(net.rest)
      read  == AskPaths(write.rest)
  IN [ name        |-> IF n.line = <<>> THEN DefaultName ELSE n.line,
       isolation   |-> "process",
       allow_net   |-> net.list,
       allow_read  |-> read.list,
       allow_write |-> write.list ]

\* The configuration sandboxInit makes without -i.
DefaultConfig ==
  [ name        |-> DefaultName,
    isolation   |-> "process",
    allow_net   |-> <<>>,
    allow_read  |-> << <<".">> >>,
    allow_write |-> << <<".">> >> ]

\* The loop of sandboxInit over os.Args[3:]: it returns at the first -h or
\* --help, and notes -i and --interactive on the way.
RECURSIVE ArgLoop(_, _)
ArgLoop(args, interactive) ==
  IF args = <<>> THEN [help |-> FALSE, interactive |-> interactive]
  ELSE CASE Head(args) \in {"-i", "--interactive"} -> ArgLoop(Tail(args), TRUE)
         [] Head(args) \in {"-h", "--help"} ->
              [help |-> TRUE, interactive |-> interactive]
         [] OTHER -> ArgLoop(Tail(args), interactive)

\* sandboxInit going on to write whatever os.Stat says.
StatFoundNever(file) == FALSE

\* os.Stat(path) returning no error.
StatFound(file) == file.exists

\* sandboxInit on the run c: the run with its return value and the file
\* it leaves.
sandboxInitOf(c) ==
  LET a == ArgLoop(c.args, FALSE) IN
  IF a.help THEN [c EXCEPT !.ret = "nil"]
  ELSE IF StatFound(c.file) THEN [c EXCEPT !.ret = "exists"]
  ELSE LET cfg == IF a.interactive THEN interactiveInit(c.stdin) ELSE DefaultConfig IN
       IF c.writable
         THEN [c EXCEPT !.ret = "nil", !.file = [exists |-> TRUE, data |-> cfg]]
         ELSE [c EXCEPT !.ret = "write"]

\* Longest list of arguments after `ddash sandbox init`.
MaxArgs == 2

InitArgs == SeqsUpTo({"-i", "--interactive", "-h", "--help", "x"}, MaxArgs)

\* .ddash.json before the run: absent, the {} of TestSandboxInitRefusesOverwrite,
\* or a configuration written earlier.
InitFiles ==
  { NoFile,
    [exists |-> TRUE, data |-> NoConfig],
    [exists |-> TRUE,
     data |-> [DefaultConfig EXCEPT !.allow_net = << <<"*">> >>]] }

\* What the user types at the questions of interactiveInit.
Answers ==
  { <<>>,
    <<"\n", "\n", "\n", "\n">>,
    <<"x", "\n", "n", "\n", "n", "\n", "n", "\n">>,
    <<"\n", "y", "\n", "a", "l", "l", "\n", "\n", "\n">>,
    <<"\n", "Y", "\n">>,
    <<"\n", "y", "e", "s", "\n", "s", "p", "e", "c", "i", "f", "i", "c", "\n",
      "a", ",", " ", ",", "b", "\n", "\n", "\n">>,
    <<"\n", "\n", "y", "\n", "/", "t", "\n", "y", "\n", "/", "r", "\n">> }

InitSandbox ==
  /\ InitProxy(EmptyMap)
  /\ fn = NoFn
  /\ term = NoTerm
  /\ \E a \in InitArgs, f \in InitFiles, in \in Answers, w \in BOOLEAN :
       sb = [args |-> a, file |-> f, stdin |-> in, writable |-> w, ret |-> "?"]

\* sandboxInit runs.
sandboxInit ==
  /\ sb.ret = "?"
  /\ sb' = sandboxInitOf(sb)
  /\ UNCHANGED << heap, domains, mu, tty, life, connVars, opened, callerVars,
                  seed, fn, term, steps, tunVars, wireVars >>

SpecSandbox == InitSandbox /\ [][sandboxInit]_vars

\* The pure functions applied to inputs of their own.
promptLine(input) == promptDecision(ReadString(input))

NoHost == <<"?">>

InitFn ==
  /\ InitProxy(EmptyMap)
  /\ sb = NoCmd
  /\ term = NoTerm
  /\ \/ \E t \in FnTokens :
          fn = [name |-> "isAllowed", arg |-> t, res |-> "?"]
     \/ \E l \in FnLines :
          fn = [name |-> "promptUser", arg |-> l, res |-> "?"]
     \/ \E h \in FnHosts :
          fn = [name |-> "stripPort", arg |-> h, res |-> NoHost]

ApplyIsAllowed ==
  /\ fn.name = "isAllowed"
  /\ fn.res = "?"
  /\ fn' = [fn EXCEPT !.res = IF isAllowed(fn.arg) THEN "true" ELSE "false"]
  /\ UNCHANGED << heap, domains, mu, tty, life, connVars, opened, callerVars, seed, envVars, steps, tunVars, wireVars >>

ApplyPromptLine ==
  /\ fn.name = "promptUser"
  /\ fn.res = "?"
  /\ fn' = [fn EXCEPT !.res = promptLine(fn.arg)]
  /\ UNCHANGED << heap, domains, mu, tty, life, connVars, opened, callerVars, seed, envVars, steps, tunVars, wireVars >>

ApplyStripPort ==
  /\ fn.name = "stripPort"
  /\ fn.res = NoHost
  /\ fn' = [fn EXCEPT !.res = stripPort(fn.arg)]
  /\ UNCHANGED << heap, domains, mu, tty, life, connVars, opened, callerVars, seed, envVars, steps, tunVars, wireVars >>

NextFn ==
  \/ ApplyIsAllowed
  \/ ApplyPromptLine
  \/ ApplyStripPort

SpecFn == InitFn /\ [][NextFn]_vars

\* ------------------------------------------------------------------ claims

\* Connections whose request has been read.
Active == {c \in Conns : pc[c] /= "idle"}

\* Connections to which checkDomain has returned.
Decided == {c \in Conns : decision[c] /= "none"}

\* Connections whose checkDomain call invoked promptUser.
Prompting(d) == {c \in Active : prompted[c] /= "no" /\ Domain(c) = d}

\* What a call of Domains() made in this state returns.
Snapshot == [d \in DOMAIN Store |-> Store[d]]

\* The handler of c did not answer 403 and went on towards the destination.
Forwarded(c) ==
  /\ status[c] /= 403
  /\ pc[c] \in {"dial", "hijack", "forward", "tunnel", "done"}

\* C1: for a domain that was not given to NewProxy, promptUser is invoked at
\* most once whatever the interleaving of the checkDomain calls, exactly once
\* as soon as one call has returned, and all calls that returned got the same
\* decision, which is the one in the store.
C1_OnePromptPerDomain ==
  \A d \in {Domain(c) : c \in Active} \ DOMAIN seed :
    LET calls == {c \in Decided : Domain(c) = d} IN
    /\ Cardinality(Prompting(d)) <= 1
    /\ calls /= {} => Cardinality(Prompting(d)) = 1
    /\ \A c1, c2 \in calls : decision[c1] = decision[c2]
    /\ \A c \in calls : d \in DOMAIN Store /\ Store[d] = decision[c]

C1_Witness ==
  \E c1, c2 \in Conns :
    /\ c1 /= c2
    /\ {c1, c2} \subseteq Decided
    /\ Domain(c1) = Domain(c2)
    /\ Domain(c1) \notin DOMAIN seed
    /\ prompted[c1] = "asked"
    /\ prompted[c2] = "no"
    /\ host[c1] /= host[c2]
    /\ decision[c2] = "always"

\* C2: a request (CONNECT or plain HTTP) whose decision is not "allow" or
\* "always" is answered 403 and its handler ends without contacting the
\* destination; a destination is contacted only by a handler whose decision
\* is "allow" or "always".
C2_DeniedNeverContacts ==
  \A c \in Conns :
    /\ (c \in Decided /\ decision[c] \notin {"allow", "always"})
         => (status[c] = 403 /\ ~contacted[c] /\ pc[c] = "done")
    /\ contacted[c] => decision[c] \in {"allow", "always"}
    /\ pc[c] \in {"dial", "hijack", "forward", "tunnel"}
         => decision[c] \in {"allow", "always"}

C2_Witness ==
  \E c1, c2 \in Conns :
    /\ method[c1] = "CONNECT" /\ decision[c1] = "never" /\ status[c1] = 403
    /\ method[c2] = "GET" /\ decision[c2] = "Allow" /\ status[c2] = 403
    /\ ~contacted[c1] /\ ~contacted[c2]

\* C3: a step of the proxy never removes an entry of the store and never
\* changes the decision of a domain that has one.
C3_DecisionsImmutable ==
  [][\A d \in DOMAIN Store : d \in DOMAIN Store' /\ Store'[d] = Store[d]]_vars

C3_Witness ==
  /\ life = "shutdown"
  /\ \E d \in DOMAIN seed : Store[d] = seed[d]
  /\ \E c \in Decided : prompted[c] = "asked" /\ Store[Domain(c)] = decision[c]
  /\ \A c \in Conns : pc[c] \in {"done", "tunnel"}

\* C4: checkDomain on a domain given to NewProxy returns the value given
\* and never invokes promptUser; when only such domains are requested the
\* control channel is never opened.
C4_SeededNeverPrompts ==
  /\ \A c \in Active :
       Domain(c) \in DOMAIN seed =>
         /\ prompted[c] = "no"
         /\ pc[c] \notin {"read", "readClosed"}
         /\ c \in Decided => decision[c] = seed[Domain(c)]
  /\ (\A c \in Active : Domain(c) \in DOMAIN seed) => (tty = "nil" /\ opened = 0)

C4_Witness ==
  \E c1, c2 \in Conns :
    /\ c1 /= c2
    /\ host[c1] = HostA1 /\ host[c2] = HostA
    /\ Domain(c1) \in DOMAIN seed
    /\ decision[c1] = "never" /\ decision[c2] = "never"
    /\ tty = "nil"

\* The tokens the switch of promptUser knows.
KnownReplies ==
  { <<"a">>, <<"a", "l", "l", "o", "w">>, <<"d">>, <<"d", "e", "n", "y">>,
    <<"l">>, <<"a", "l", "w", "a", "y", "s">>, <<"n">>, <<"n", "e", "v", "e", "r">> }

C6_NoTtyDenies ==
  /\ \A c \in Conns :
       prompted[c] = "notty" =>
         /\ decision[c] = "deny"
         /\ status[c] = 403
         /\ pc[c] = "done"
         /\ ~contacted[c]
  /\ opened = 0 => tty = "nil"

C6_Witness ==
  \E c1, c2 \in Conns :
    /\ prompted[c1] = "notty" /\ prompted[c2] = "notty"
    /\ Domain(c1) /= Domain(c2)
    /\ status[c1] = 403 /\ status[c2] = 403
    /\ tty = "nil"

C8_OnePromptAtATime ==
  LET reading == {c \in Conns : pc[c] \in {"read", "readClosed"}} IN
  /\ Cardinality(reading) <= 1
  /\ \A c \in reading : mu = c

C8_Witness ==
  \E c1, c2 \in Conns :
    /\ pc[c1] = "read"
    /\ pc[c2] = "check"
    /\ Domain(c1) /= Domain(c2)
    /\ Domain(c1) \notin DOMAIN Store
    /\ Domain(c2) \notin DOMAIN Store

\* C9: an edit the caller makes to a map returned by Domains() leaves the
\* store as it was, and with it what later Domains() and checkDomain calls
\* return.
C9_SnapshotIsACopy ==
  [][/\ (edits' = edits + 1 /\ heap'[InRef] = heap[InRef]) => Store' = Store
     /\ snaps' = snaps + 1 =>
          \E r \in held' \ held : heap'[r] = Store /\ Store' = Store]_vars

C9_Witness ==
  /\ SnapRef(1) \in edited
  /\ <<"e">> \in DOMAIN heap[SnapRef(1)]
  /\ snaps = 2
  /\ heap[SnapRef(2)] = Store
  /\ <<"e">> \notin DOMAIN Store
  /\ Decided /= {}

\* C10: isAllowed is true for exactly "allow" and "always"; every other
\* token passes the gate the way "deny" does.
C10_IsAllowedExact ==
  (fn.name = "isAllowed" /\ fn.res /= "?") =>
    /\ fn.res = "true" <=> fn.arg \in {"allow", "always"}
    /\ fn.arg \in {"deny", "never", "", "Allow", "ALWAYS"} => fn.res = "false"
    /\ fn.res = "false" =>
         \A c \in Conns : /\ Gate(c, fn.arg).pc = "done"
                          /\ Gate(c, fn.arg).status = 403

C10_Witness ==
  /\ fn.name = "isAllowed"
  /\ fn.arg = "Allow"
  /\ fn.res = "false"

\* Whether s holds none of the characters that delimit a port or a literal.
PlainName(s) == s /= <<>> /\ \A i \in 1..Len(s) : s[i] \notin {":", "[", "]"}

\* The characters between the brackets of an IPv6 literal.
V6Body(s) == s /= <<>> /\ \A i \in 1..Len(s) : s[i] \in {":", "1", "a"}

Applied(name) == fn.name = name /\ fn.res /= (IF name = "stripPort" THEN NoHost ELSE "?")

\* C11: stripPort gives the host for every form of target: host:port and
\* ipv4:port give the host, a host without a port is returned as it is,
\* [v6]:port gives v6, and [v6] without a port gives v6.
C11_StripPortAllForms ==
  Applied("stripPort") =>
    /\ \A h \in FnHosts, port \in {<<"1">>, <<"2">>, <<"1", "1">>} :
         /\ (PlainName(h) /\ fn.arg = h \o <<":">> \o port) => fn.res = h
         /\ (PlainName(h) /\ fn.arg = h) => fn.res = h
         /\ (V6Body(h) /\ fn.arg = <<"[">> \o h \o <<"]", ":">> \o port) => fn.res = h
         /\ (V6Body(h) /\ fn.arg = <<"[">> \o h \o <<"]">>) => fn.res = h

\* The host a request target names, whatever its port.
HostName(h) ==
  CASE h \in {HostA1, HostA2, HostA} -> "a"
    [] h \in {HostV6, HostV6Bare}    -> "::1"
    [] OTHER                         -> "other"

\* C12: requests that name the same host with different ports, or with and
\* without a port, IPv6 literals included, use one entry of the store: they
\* have the same domain, the operator is asked at most once for them, and
\* they get the same decision.
C12_PortNotInKey ==
  \A c1, c2 \in Active :
    (c1 /= c2 /\ HostName(host[c1]) = HostName(host[c2])) =>
      /\ Domain(c1) = Domain(c2)
      /\ ~(prompted[c1] /= "no" /\ prompted[c2] /= "no")
      /\ (c1 \in Decided /\ c2 \in Decided) => decision[c1] = decision[c2]

\* C13: a request for a domain that is already in the store gets its cached
\* decision in the end, even while another connection's prompt waits for a
\* reply that never comes.
C13_CachedNotBlockedByPrompt ==
  \A c \in Conns :
    (pc[c] = "check" /\ Cached(Domain(c))) ~> (decision[c] /= "none")

\* Connections whose prompt is waiting for the operator's reply.
AwaitingReply == {c \in Conns : pc[c] \in {"read", "readClosed"}}

\* C14: Domains() returns a snapshot without waiting for a prompt: whenever
\* the caller is inside Domains(), its return can happen, a prompt awaiting
\* its reply or not.
C14_SnapshotNeverWaits ==
  caller = "inDomains" => ENABLED DomainsReturn

\* Whether a promptUser call for d has returned v.
Completed(d, v) ==
  \E c \in Conns \ AwaitingReply :
    prompted[c] /= "no" /\ Domain(c) = d /\ decision[c] = v

\* Whether v is the seeded entry of d or the result of a completed prompt.
Final(d, v) == (d \in DOMAIN seed /\ seed[d] = v) \/ Completed(d, v)

\* The maps Domains() returned that the caller has not written to.
Snapshots == held \ (edited \cup {InRef})

\* C15: no caller sees a half-applied policy.  Every entry of the store, of
\* a snapshot returned by Domains() and every decision returned by
\* checkDomain is a seeded entry or the result of a completed prompt; a
\* domain whose prompt awaits its reply has no entry; and the store changes
\* only in a step in which a prompting checkDomain call returns.
C15_NoHalfAppliedPolicy ==
  /\ [](/\ \A d \in DOMAIN Store : Final(d, Store[d])
        /\ \A r \in Snapshots : \A d \in DOMAIN heap[r] : Final(d, heap[r][d])
        /\ \A c \in Decided : Final(Domain(c), decision[c])
        /\ \A c \in AwaitingReply :
             /\ ~Cached(Domain(c))
             /\ \A r \in Snapshots : Domain(c) \notin DOMAIN heap[r])
  /\ [][Store' /= Store =>
          \E c \in Conns : /\ prompted'[c] /= "no"
                           /\ decision[c] = "none"
                           /\ decision'[c] /= "none"
                           /\ Store' = MapSet(Store, Domain(c), decision'[c])]_vars

\* A prompt awaits its reply while the caller holds a snapshot, and the
\* prompt's domain is in neither the snapshot nor the store.
C15_Witness ==
  \E c \in AwaitingReply, r \in Snapshots :
    Domain(c) \notin DOMAIN heap[r] /\ ~Cached(Domain(c))

\* The place of step e in the steps of c, 0 when it did not happen.
StepAt(c, e) ==
  IF \E i \in 1..Len(steps[c]) : steps[c][i] = e
    THEN CHOOSE i \in 1..Len(steps[c]) : steps[c][i] = e
    ELSE 0

Did(c, e) == StepAt(c, e) > 0

\* C16: handleCONNECT of a permitted request dials, then hijacks the client
\* socket, then writes the 200 line, then starts the relay.  The 200 line is
\* written only after a successful dial; after a failed dial the client gets
\* 502, its socket is not hijacked and no relay is started.
C16_ConnectOrder ==
  \A c \in Conns :
    /\ steps[c] /= <<>> => method[c] = "CONNECT" /\ isAllowed(decision[c])
    /\ Did(c, "hijack") => Did(c, "dial") /\ StepAt(c, "dial") < StepAt(c, "hijack")
    /\ Did(c, "write200") =>
         Did(c, "hijack") /\ StepAt(c, "hijack") < StepAt(c, "write200")
    /\ Did(c, "relay") =>
         Did(c, "write200") /\ StepAt(c, "write200") < StepAt(c, "relay")
    /\ (method[c] = "CONNECT" /\ status[c] = 200) <=> Did(c, "write200")
    /\ (\E dir \in Dirs : relay[c][dir] /= "none") <=> Did(c, "relay")
    /\ Did(c, "dialErr") =>
         /\ status[c] = 502
         /\ ~Did(c, "dial") /\ ~Did(c, "hijack") /\ ~Did(c, "write200")
         /\ ~Did(c, "relay")
         /\ \A dir \in Dirs : relay[c][dir] = "none"

\* One tunnel is relaying after dial, hijack and the 200 line, and another
\* request's dial has failed.
C16_Witness ==
  /\ \E c \in Conns :
       steps[c] = <<"dial", "hijack", "write200", "relay">> /\ relay[c]["up"] = "copy"
  /\ \E c \in Conns : Did(c, "dialErr") /\ status[c] = 502

\* Connections on which handleCONNECT has started the two copy goroutines.
Tunnels == {c \in Conns : pc[c] = "tunnel"}

C18_HalfCloseKeepsOtherDirection ==
  \A c \in Tunnels, dir \in Dirs :
    ( /\ relay[c][dir] = "done"
      /\ relayEnd[c][dir] = "eof"
      /\ peer[c][Dst(dir)] = "open" ) =>
        /\ closes[c][Dst(dir)] = 0
        /\ relay[c][Other(dir)] = "copy"
        /\ ~ENABLED relayCopyReturns(c, Other(dir))

\* C19: once Shutdown has run, the listener is closed and no state holds an
\* open handle of the control channel, whether the handle was opened before
\* Shutdown or by a prompt that runs after it.
C19_NoOpenHandleAfterShutdown ==
  life = "shutdown" => tty /= "open"

\* Connections whose checkDomain call wrote a prompt to the control channel.
Asked == {c \in Conns : prompted[c] = "asked"}

\* C20: /dev/tty is opened only by a prompt for a domain that is not in the
\* store, it is opened successfully at most once, and after that open p.tty
\* stays set, so that every later prompt uses the handle and opens nothing.
C20_TtyOpenedLazilyOnce ==
  /\ [](/\ opened <= 1
        /\ tty /= "nil" <=> opened = 1
        /\ Asked /= {} <=> opened = 1
        /\ \A c \in Asked : Domain(c) \notin DOMAIN seed)
  /\ [][/\ opened' /= opened =>
             /\ tty = "nil" /\ opened = 0 /\ opened' = 1
             /\ \E c \in Conns : /\ prompted[c] = "no" /\ prompted'[c] = "asked"
                                 /\ ~Cached(Domain(c))
        /\ tty /= "nil" => tty' /= "nil" /\ opened' = opened]_vars

\* Two prompts for two domains have been written and /dev/tty was opened
\* once.
C20_Witness ==
  \E c1, c2 \in Asked :
    /\ Domain(c1) /= Domain(c2)
    /\ c1 \in Decided
    /\ opened = 1

\* C21: p.tty is read and written only under p.mu: the step in which
\* Shutdown checks and closes the handle is taken only when no handler holds
\* the mutex, and the open in promptUser leaves the mutex held.
C21_HandleGuardedByLock ==
  [][/\ (life /= "shutdown" /\ life' = "shutdown") => mu = 0
     /\ opened' /= opened => mu' /= 0]_vars

\* Connections whose handler has returned without starting a tunnel.
Ended == {c \in Conns : pc[c] = "done"}

\* C22: a handler that ends without a tunnel has written exactly one status
\* response: 403 for a denied request, 502 for a failed dial or round trip,
\* 400 for an outbound request that could not be built; a status written is
\* never replaced, and after the 200 line of a tunnel no response follows.
C22_OneStatusResponse ==
  /\ [](\A c \in Ended :
          /\ status[c] /= 0
          /\ ~isAllowed(decision[c]) => status[c] = 403
          /\ Did(c, "dialErr") => status[c] = 502
          /\ (fwd[c].sent = 1 /\ ~fwd[c].up.ok) => status[c] = 502
          /\ (isAllowed(decision[c]) /\ method[c] = "GET" /\ fwd[c].sent = 0) =>
               status[c] = 400)
  /\ [][\A c \in Conns :
          status[c] /= 0 => status'[c] = status[c] /\ body'[c] = body[c]]_vars

\* Connections whose request was refused by the gate.
Denied == {c \in Ended : decision[c] /= "none" /\ ~isAllowed(decision[c])}

\* What the client of connection c has received: the response the handler
\* wrote, or nothing but a closed connection when the server closed the
\* connection while the request was being handled.
ClientSees(c) ==
  IF cut[c]
    THEN [status |-> 0, body |-> "", closed |-> TRUE]
    ELSE [status |-> status[c], body |-> body[c], closed |-> FALSE]

\* C23 as stated: the client of a denied request always gets status 403 and
\* the response body, never a closed connection, whatever denied the domain.
C23_DeniedAlwaysAnswered ==
  \A c \in Denied :
    ClientSees(c) = [status |-> 403, body |-> "ddash: connection blocked",
                     closed |-> FALSE]

\* C23: a denied request whose connection the server has not closed is
\* answered 403 with a body, and any two denied requests look the same to
\* their clients whether the domain was denied by a seeded entry, by a reply,
\* by an unrecognised reply or for want of /dev/tty, and whichever handler
\* refused them; a connection is closed unanswered only by Shutdown.
C23_DenialSourceInvisible ==
  \A c \in Denied :
    /\ ~cut[c] => ClientSees(c).status = 403 /\ ClientSees(c).body /= ""
    /\ cut[c] => life = "shutdown"
    /\ \A d \in Denied : cut[c] = cut[d] => ClientSees(c) = ClientSees(d)

C23_Witness ==
  \E c, d \in Denied :
    /\ ~cut[c] /\ ~cut[d]
    /\ method[c] /= method[d]
    /\ prompted[c] = "no"
    /\ prompted[d] /= "no"
    /\ ClientSees(c).status = 403

\* C24 as stated: Shutdown closes the connection of no request in flight,
\* neither of a plain request being forwarded nor of a tunnel.
C24_ShutdownInterruptsNothing ==
  [][(life /= "shutdown" /\ life' = "shutdown") =>
        \A c \in Conns : pc[c] \in {"forward", "tunnel"} => cut'[c] = cut[c]]_vars

\* C24: Shutdown closes the listener, /dev/tty and, with the server, the
\* client connection of every request still being handled, a plain request
\* being forwarded included; it stops no handler, and it leaves a tunnel,
\* whose sockets are hijacked, to end on its own reads and writes.
C24_ShutdownClosesServedConns ==
  [][(life /= "shutdown" /\ life' = "shutdown") =>
        /\ pc' = pc
        /\ \A c \in Conns :
             /\ pc[c] \in {"check", "read", "readClosed", "dial", "hijack", "forward"}
                  => cut'[c]
             /\ pc[c] \in {"idle", "done", "tunnel"} => cut'[c] = cut[c]
        /\ relay' = relay /\ relayEnd' = relayEnd /\ closes' = closes]_vars

C24_Witness ==
  /\ life = "shutdown"
  /\ \E c, d \in Conns :
       /\ pc[c] = "tunnel" /\ ~cut[c]
       /\ pc[d] = "forward" /\ cut[d]

\* C25: when net.Listen fails NewProxy returns the error and no proxy: no
\* proxy and no map of its own exist, no request is ever accepted or served,
\* /dev/tty is never opened, and nothing the proxy does can happen.
C25_NoProxyOnListenError ==
  life = "failed" =>
    /\ domains = NilRef
    /\ \A r \in Refs \ {InRef} : heap[r] = EmptyMap
    /\ heap[InRef] = seed
    /\ tty = "nil" /\ opened = 0
    /\ \A c \in Conns : pc[c] = "idle" /\ status[c] = 0 /\ ~contacted[c]
    /\ ~ENABLED Next

C25_Witness == life = "failed" /\ DOMAIN seed /= {}

\* What a run of sandboxInit was asked: for help, and for the questions.
Asks(flags) == \E i \in 1..Len(sb.args) : sb.args[i] \in flags

\* The step in which sandboxInit runs.
InitRuns == sb.ret = "?" /\ sb'.ret /= "?"

\* C26 as stated: an existing .ddash.json makes sandboxInit return an error
\* and stays as it is; -h or --help makes it return nil and create no file;
\* in every other run it creates the file with allow_net = [],
\* allow_read = ["."], allow_write = ["."].
C26_RefuseHelpElseDefault ==
  [][InitRuns =>
       /\ sb.file.exists => sb'.ret \notin {"nil", "?"} /\ sb'.file = sb.file
       /\ Asks({"-h", "--help"}) => sb'.ret = "nil" /\ sb'.file = sb.file
       /\ (~sb.file.exists /\ ~Asks({"-h", "--help"})) =>
            /\ sb'.file.exists
            /\ sb'.file.data.allow_net = <<>>
            /\ sb'.file.data.allow_read = << <<".">> >>
            /\ sb'.file.data.allow_write = << <<".">> >>]_vars

\* C26: with -h or --help among its arguments sandboxInit returns nil and
\* touches no file, existing or not.  Otherwise an existing .ddash.json makes
\* it return an error and stays as it is.  Otherwise it writes the file, or
\* returns an error and leaves no file when the write fails: without -i the
\* file has allow_net = [], allow_read = ["."], allow_write = ["."]; with -i
\* it has the lists the answers give, which are those lists when no
\* question is answered yes.
C26_RefusesOverwrite ==
  [][InitRuns =>
       /\ Asks({"-h", "--help"}) => sb'.ret = "nil" /\ sb'.file = sb.file
       /\ (sb.file.exists /\ ~Asks({"-h", "--help"})) =>
            sb'.ret = "exists" /\ sb'.file = sb.file
       /\ (~sb.file.exists /\ ~Asks({"-h", "--help"})) =>
            /\ ~sb.writable => sb'.ret = "write" /\ sb'.file = sb.file
            /\ sb.writable => sb'.ret = "nil" /\ sb'.file.exists
            /\ (sb.writable /\ ~Asks({"-i", "--interactive"})) =>
                 /\ sb'.file.data.allow_net = <<>>
                 /\ sb'.file.data.allow_read = << <<".">> >>
                 /\ sb'.file.data.allow_write = << <<".">> >>
            /\ (sb.writable /\ Asks({"-i", "--interactive"})) =>
                 /\ sb'.file.data.allow_read[1] = <<".">>
                 /\ sb'.file.data.allow_write[1] = <<".">>
                 /\ sb.stdin \in {<<>>, <<"\n", "\n", "\n", "\n">>} =>
                      sb'.file.data = DefaultConfig]_vars

C26_Witness ==
  /\ sb.ret = "nil"
  /\ Asks({"-i", "--interactive"})
  /\ sb.file.exists
  /\ sb.file.data.allow_net = << <<"a">>, <<"b">> >>
  /\ sb.file.data.allow_write = << <<".">> >>

\* The lines of a sequence of lines as one stream of bytes.
RECURSIVE Bytes(_)
Bytes(lines) == IF lines = <<>> THEN <<>> ELSE Head(lines) \o Bytes(Tail(lines))

\* C27: the i-th prompt is decided by the i-th line the operator typed, and
\* the prompts that have read consumed their own lines only: the lines typed
\* after those are still waiting in the terminal.
C27_PromptReadsItsOwnLine ==
  /\ Len(term.got) <= Len(term.typed)
  /\ \A i \in 1..Len(term.got) : term.got[i] = term.typed[i]
  /\ term.in = Bytes(SubSeq(term.typed, Len(term.got) + 1, Len(term.typed)))

\* C28: once the far end of either socket of an established tunnel has sent
\* its end-of-input or failed, both copy goroutines eventually end and both
\* sockets are closed.
C28_TunnelEventuallyTornDown ==
  \A c \in Conns :
    (pc[c] = "tunnel" /\ \E k \in Socks : peer[c][k] /= "open")
      ~> (/\ \A dir \in Dirs : relay[c][dir] = "done"
          /\ \A k \in Socks : closes[c][k] > 0)

C28_Witness ==
  \E c \in Tunnels :
    /\ \A dir \in Dirs : relay[c][dir] = "done"
    /\ \A k \in Socks : closes[c][k] > 0
    /\ peer[c]["client"] = "eof"
    /\ peer[c]["target"] = "open"
    /\ ~cut[c]

\* C29: while a prompt waits for its reply, its connection has no response,
\* the destination has not been contacted and the store holds no decision
\* for the domain; and a prompt ends and decides the domain only on bytes
\* read from the operator, never because Shutdown closed the handle.
C29_OnlyReplyDecides ==
  /\ [](\A c \in AwaitingReply :
          /\ status[c] = 0
          /\ ~contacted[c]
          /\ Domain(c) \notin DOMAIN Store)
  /\ [][\A c \in AwaitingReply :
          decision'[c] /= "none" => (reply'[c] /= <<>> \/ tty /= "closed")]_vars

\* Connections whose permitted plain request handleHTTP sent out.
Sent == {c \in Ended : method[c] = "GET" /\ fwd[c].sent > 0}

\* C30: for a permitted plain request handleHTTP sends one outbound request
\* with the method, the URL and the headers of the client's request; when
\* the round trip succeeds the client gets the upstream's status code, every
\* value of its headers and its body; when it fails the client gets 502 and
\* nothing of an upstream response.
C30_ForwardedVerbatim ==
  \A c \in Sent :
    /\ fwd[c].sent = 1
    /\ fwd[c].out.method = method[c]
    /\ fwd[c].out.url = fwd[c].url
    /\ fwd[c].out.header = fwd[c].header
    /\ fwd[c].up.ok =>
         /\ status[c] = fwd[c].up.code
         /\ fwd[c].hdr = fwd[c].up.header
         /\ body[c] = fwd[c].up.body
    /\ ~fwd[c].up.ok =>
         /\ status[c] = 502
         /\ fwd[c].hdr = EmptyHeader
         /\ body[c] = "ddash: upstream error"

PermitReplies ==
  { <<"a">>, <<"a", "l", "l", "o", "w">>, <<"l">>, <<"a", "l", "w", "a", "y", "s">> }

\* Connections whose prompt has read its reply, or has failed to.
Answered == {c \in Asked : decision[c] /= "none"}

\* C32: a read that Shutdown's close of the handle, or the end of input,
\* ends without bytes gives deny; a prompt that starts on the closed handle
\* gives deny; and the store holds allow or always for a domain only when
\* that was seeded or an operator's reply of a, allow, l or always was read.
C32_ClosedChannelDenies ==
  /\ [](/\ \A c \in Answered :
             /\ reply[c] = <<>> => decision[c] = "deny" /\ status[c] = 403
             /\ isAllowed(decision[c]) =>
                  TrimSpace(ToLower(reply[c])) \in PermitReplies
        /\ \A d \in DOMAIN Store :
             isAllowed(Store[d]) =>
               \/ d \in DOMAIN seed /\ seed[d] = Store[d]
               \/ \E c \in Answered :
                    /\ Domain(c) = d
                    /\ TrimSpace(ToLower(reply[c])) \in PermitReplies)
  /\ [][\A c \in Conns :
          (pc[c] = "readClosed" /\ pc'[c] /= "readClosed") =>
            /\ decision'[c] = "deny"
            /\ heap'[domains][Domain(c)] = "deny"
            /\ ~contacted'[c]]_vars

C32_Witness ==
  /\ life = "shutdown"
  /\ tty = "closed"
  /\ \E c \in Answered :
       /\ cut[c]
       /\ reply[c] = <<>>
       /\ decision[c] = "deny"
       /\ Store[Domain(c)] = "deny"

\* Connections whose handler is past checkDomain and busy with the
\* destination: dialing, taking over the client, forwarding, or relaying.
AtDestination == {c \in Conns : pc[c] \in {"dial", "hijack", "forward", "tunnel"}}

\* C33: p.mu is held only inside checkDomain (and Domains): a handler that
\* has gone on to the destination does not hold it, so while no prompt
\* waits for its reply the lock is free and checkDomain of every other
\* connection can go ahead, however long the destination takes; and a
\* handler takes the lock only when it does not hold it.
C33_LockOnlyInCheckDomain ==
  /\ \A c \in Conns :
       /\ mu = c => pc[c] \in {"read", "readClosed"}
       /\ pc[c] = "check" => mu /= c
  /\ \A c \in AtDestination :
       /\ mu /= c
       /\ AwaitingReply = {} =>
            /\ ~Locked
            /\ \A d \in Conns \ {c} :
                 pc[d] = "check" =>
                   ENABLED (checkDomainCached(d) \/ promptUser(d))

C33_Witness ==
  \E c, d \in Conns :
    /\ pc[c] = "dial" /\ prompted[c] = "asked"
    /\ pc[d] = "check"
    /\ ~Locked

\* C34: the store is a map of NewProxy's own, which starts with the entries
\* of the argument (none for an empty or nil argument): whatever the caller
\* then writes to or deletes from its map, checkDomain answers a seeded
\* domain with the seeded value, the store gains entries by prompts only,
\* and a snapshot from Domains() holds entries of the store only.
C34_SeedMapCopied ==
  /\ domains /= InRef
  /\ \A d \in DOMAIN seed : d \in DOMAIN Store /\ Store[d] = seed[d]
  /\ \A d \in DOMAIN Store \ DOMAIN seed :
       \E c \in Decided :
         prompted[c] /= "no" /\ Domain(c) = d /\ decision[c] = Store[d]
  /\ \A c \in Decided :
       prompted[c] = "no" =>
         /\ Domain(c) \in DOMAIN Store /\ decision[c] = Store[Domain(c)]
         /\ Domain(c) \in DOMAIN seed => decision[c] = seed[Domain(c)]
  /\ \A r \in Snapshots :
       /\ \A d \in DOMAIN seed : d \in DOMAIN heap[r] /\ heap[r][d] = seed[d]
       /\ \A d \in DOMAIN heap[r] : d \in DOMAIN Store /\ heap[r][d] = Store[d]

C34_Witness ==
  /\ InRef \in edited
  /\ heap[InRef] /= seed
  /\ heap[InRef] /= Store
  /\ Snapshots /= {}
  /\ \E c \in Decided : decision[c] /= "none" /\ Domain(c) \notin DOMAIN heap[InRef]

\* The decision tokens the proxy itself writes.
KnownTokens == {"allow", "always", "deny", "never"}

\* Domains seeded with a token that is none of those.
OddSeeded == {d \in DOMAIN seed : seed[d] \notin KnownTokens}

\* C35: a domain seeded with an unrecognised token is never prompted for,
\* every request for it gets the token back from checkDomain and is answered
\* 403 without contacting the destination, and the store, and so what
\* Domains() returns, keeps the token as it was seeded.
C35_UnknownSeedBlocks ==
  \A d \in OddSeeded :
    /\ d \in DOMAIN Snapshot /\ Snapshot[d] = seed[d]
    /\ \A c \in Active :
         Domain(c) = d =>
           /\ prompted[c] = "no"
           /\ pc[c] \in {"check", "done"}
           /\ c \in Decided =>
                /\ decision[c] = seed[d]
                /\ status[c] = 403
                /\ ~contacted[c]

C35_Witness ==
  \E c, e \in Decided :
    /\ c /= e
    /\ Domain(c) \in OddSeeded /\ Domain(e) = Domain(c)
    /\ method[c] = "GET" /\ method[e] = "CONNECT"
    /\ status[c] = 403 /\ status[e] = 403
    /\ seed[Domain(c)] = ""
    /\ life = "serving"

\* The name of a host whatever its spelling: small letters, no final dot.
Folded(d) ==
  LET l == ToLower(d) IN
  IF l /= <<>> /\ l[Len(l)] = "." THEN SubSeq(l, 1, Len(l) - 1) ELSE l

\* C36: a request for a host that is in the store under another spelling
\* (letter case, final dot) is not prompted for and gets the recorded
\* decision: no request is prompted for a host that was seeded, and no two
\* prompts are made for one host.
C36_SpellingSameDecision ==
  /\ \A c \in Active, d \in DOMAIN seed :
       Folded(Domain(c)) = Folded(d) =>
         /\ prompted[c] = "no"
         /\ c \in Decided => decision[c] = seed[d]
  /\ \A c, e \in Active :
       (c /= e /\ Folded(Domain(c)) = Folded(Domain(e))) =>
         ~(prompted[c] /= "no" /\ prompted[e] /= "no")

\* Connections whose handleCONNECT dialed the destination successfully.
Dialed == {c \in Conns : Did(c, "dial")}

\* C37: when handleCONNECT has dialed and then cannot take over the client
\* connection, it closes the destination connection once, before it writes
\* the 500 and returns; a dialed connection is open only while the handler
\* is on its way to the tunnel or the relay owns it.
C37_TargetClosedOnFailure ==
  \A c \in Dialed :
    /\ pc[c] \in {"hijack", "tunnel", "done"}
    /\ pc[c] = "hijack" => closes[c]["target"] = 0
    /\ pc[c] = "tunnel" => \A dir \in Dirs : relay[c][dir] /= "none"
    /\ pc[c] = "done" =>
         /\ closes[c]["target"] = 1
         /\ Did(c, "closeTarget")
         /\ StepAt(c, "closeTarget") < StepAt(c, "write500")
         /\ StepAt(c, "write500") = Len(steps[c])
         /\ status[c] = 500
         /\ ~Did(c, "write200")
         /\ \A dir \in Dirs : relay[c][dir] = "none"

C37_Witness ==
  \E c, d \in Dialed :
    /\ pc[c] = "done" /\ pc[d] = "done"
    /\ Did(c, "hijackErr") /\ ~Did(d, "hijackErr")
    /\ closes[c]["target"] = 1 /\ closes[d]["target"] = 1

\* C38: stripPort is idempotent: applying it to its own result gives that
\* result again, for every input string.
C38_StripPortIdempotent ==
  Applied("stripPort") => stripPort(fn.res) = fn.res

====
